---- MODULE Spec2Model ----
(***************************************************************************)
(* Model of skills/pose-engine-locomotion/scripts/                         *)
(* openpose_frames_to_motion_constants.py: frame ingestion (_load_frames), *)
(* confidence-gated midpoints (_part, _midpoint), the motion statistics    *)
(* (_stride_stats, _dash_distance, _median) and the constant synthesis of  *)
(* derive_motion_constants, driven by main.                                *)
(*                                                                         *)
(* Numbers.  Python floats are modelled as exact fixed-point integers with *)
(* U units per 1.0.  U is chosen so that every product the program forms   *)
(* on the inputs drawn here (x * 0.5, * 2.1, * 1.65, * 4.5, * 0.42, * 0.58,*)
(* * 0.18, the mean of two medians) is an exact multiple of one unit, so   *)
(* Mul is exact and no binary rounding error is modelled.                  *)
(***************************************************************************)
EXTENDS Integers, Sequences, FiniteSets, TLC

VARIABLES
    pc,                 \* position of the run: start, loaded, entry, loop, done
    payload,            \* the JSON value read by main (JNull when derive is called directly)
    frames,             \* List[List[float]]: result of _load_frames / argument of derive
    min_conf,           \* args.min_confidence / the min_conf argument
    fi,                 \* 1-based index of the next frame of the for loop (line 132)
    hip_midpoints,      \* list of <<x, y>>
    shoulder_midpoints, \* list of <<x, y>>
    metrics,            \* locals of derive_motion_constants once computed (lines 148-160)
    constants,          \* the dict of line 166, before rounding
    result,             \* the dict returned by line 178; empty while nothing is returned
    exc                 \* "none" or the exception that ended the run

vars == <<pc, payload, frames, min_conf, fi, hip_midpoints, shoulder_midpoints,
          metrics, constants, result, exc>>

\* ---------------------------------------------------------------- bounds
MaxItems == 2
MaxFrames == 3

\* ------------------------------------------------------------ fixed point
U == 4 * 100000

Px(n) == n * U

Tenths(n) == n * (U \div 10)

\* v * (num / den), exact on the grid described above.
Mul(v, num, den) == (v \div den) * num

Abs(v) == IF v < 0 THEN -v ELSE v

Max2(a, b) == IF a >= b THEN a ELSE b

Min2(a, b) == IF a <= b THEN a ELSE b

RECURSIVE Insert(_, _)
Insert(v, s) ==
    IF s = <<>> THEN <<v>>
    ELSE IF v <= Head(s) THEN <<v>> \o s
    ELSE <<Head(s)>> \o Insert(v, Tail(s))

RECURSIVE Sorted(_)
Sorted(s) == IF s = <<>> THEN <<>> ELSE Insert(Head(s), Sorted(Tail(s)))

RECURSIVE SeqMin(_)
SeqMin(s) == IF Len(s) = 1 THEN s[1] ELSE Min2(s[1], SeqMin(Tail(s)))

RECURSIVE SeqMax(_)
SeqMax(s) == IF Len(s) = 1 THEN s[1] ELSE Max2(s[1], SeqMax(Tail(s)))

SeqsUpTo(S, n) == UNION {[1..k -> S] : k \in 0..n}

\* ------------------------------------------------------------ COCO_PARTS
COCO_PARTS ==
    << "nose", "neck", "r_shoulder", "r_elbow", "r_wrist", "l_shoulder",
       "l_elbow", "l_wrist", "r_hip", "r_knee", "r_ankle", "l_hip", "l_knee",
       "l_ankle", "r_eye", "l_eye", "r_ear", "l_ear" >>

\* COCO_PARTS.index(name): 0-based position of name.
PartIndex(name) == (CHOOSE i \in 1..Len(COCO_PARTS) : COCO_PARTS[i] = name) - 1

FrameLen == Len(COCO_PARTS) * 3

\* ------------------------------------------------------------ JSON values
JNull == [t |-> "null"]

JNum(n) == [t |-> "num", v |-> n]

JStr(s) == [t |-> "str", s |-> s]

JList(e) == [t |-> "list", e |-> e]

JDict(d) == [t |-> "dict", d |-> d]

\* float(v) of line 77: a number converts to itself, a numeric string is
\* parsed, a non-numeric string raises ValueError, None / list / dict raise
\* TypeError.
NumericStrings == {"1.5"}

FloatRaises(v) ==
    IF v.t = "num" THEN "none"
    ELSE IF v.t = "str" THEN (IF v.s \in NumericStrings THEN "none" ELSE "ValueError")
    ELSE "TypeError"

ToFloat(v) == IF v.t = "num" THEN v.v ELSE Mul(Px(1), 3, 2)

\* ---------------------------------------------------------- Frame Ingestor
\* An Optional value is a sequence: <<>> is None, <<v>> is the value v.

\* _extract_people_entry (lines 54-64).
extract_people_entry(frame) ==
    IF frame.t # "dict" THEN <<>>
    ELSE IF "people" \in DOMAIN frame.d /\ frame.d["people"].t = "list" THEN
        IF frame.d["people"].e = <<>> THEN <<>>
        ELSE IF Head(frame.d["people"].e).t = "dict"
             THEN <<Head(frame.d["people"].e)>>
             ELSE <<>>
    ELSE <<frame>>

\* person.get(key) of line 72.
DictGet(dict, key) == IF key \in DOMAIN dict.d THEN dict.d[key] ELSE JNull

\* The exception of the list comprehension of line 77: that of the first
\* element float() rejects, "none" when every element converts.
RECURSIVE FirstRaise(_)
FirstRaise(e) ==
    IF e = <<>> THEN "none"
    ELSE IF FloatRaises(Head(e)) # "none" THEN FloatRaises(Head(e))
    ELSE FirstRaise(Tail(e))

\* Mutant of extract_keypoints_array: the length test of line 75 is missing.
extract_keypoints_array_nolen(frame) ==
    LET person == extract_people_entry(frame) IN
    IF person = <<>> \/ DOMAIN person[1].d = {}
    THEN [raised |-> "none", arr |-> <<>>]
    ELSE LET arr == DictGet(person[1], "pose_keypoints_2d") IN
         IF arr.t # "list" THEN [raised |-> "none", arr |-> <<>>]
         ELSE IF FirstRaise(arr.e) # "none"
              THEN [raised |-> FirstRaise(arr.e), arr |-> <<>>]
              ELSE [raised |-> "none",
                    arr |-> <<[i \in 1..Len(arr.e) |-> ToFloat(arr.e[i])]>>]

\* _extract_keypoints_array (lines 67-77): [raised, arr], arr an Optional.
extract_keypoints_array(frame) ==
    LET person == extract_people_entry(frame) IN
    IF person = <<>> \/ DOMAIN person[1].d = {}
    THEN [raised |-> "none", arr |-> <<>>]
    ELSE LET arr == DictGet(person[1], "pose_keypoints_2d") IN
         IF arr.t # "list" THEN [raised |-> "none", arr |-> <<>>]
         ELSE IF Len(arr.e) < FrameLen THEN [raised |-> "none", arr |-> <<>>]
         ELSE IF FirstRaise(arr.e) # "none"
              THEN [raised |-> FirstRaise(arr.e), arr |-> <<>>]
              ELSE [raised |-> "none",
                    arr |-> <<[i \in 1..Len(arr.e) |-> ToFloat(arr.e[i])]>>]

\* The per-frame items of lines 81-86.
ItemsOf(p) ==
    IF p.t = "dict" /\ DictGet(p, "frames").t = "list" THEN DictGet(p, "frames").e
    ELSE IF p.t = "list" THEN p.e
    ELSE <<p>>

\* The loop of lines 88-93 over items, frames accumulated in acc.
RECURSIVE load_loop(_, _)
load_loop(items, acc) ==
    IF items = <<>> THEN [raised |-> "none", frames |-> acc]
    ELSE LET r == extract_keypoints_array(Head(items)) IN
         IF r.raised # "none" THEN [raised |-> r.raised, frames |-> <<>>]
         ELSE IF r.arr # <<>> /\ r.arr[1] # <<>>
              THEN load_loop(Tail(items), Append(acc, r.arr[1]))
              ELSE load_loop(Tail(items), acc)

\* _load_frames (lines 80-93): [raised, frames].
load_frames(p) == load_loop(ItemsOf(p), <<>>)

\* -------------------------------------------------------- Midpoint Extractor
\* Mutant of part: only a negative confidence marks the joint absent.
part_lt0(frame, name) ==
    LET idx == PartIndex(name) * 3
        x == frame[idx + 1]
        y == frame[idx + 2]
        c == frame[idx + 3]
    IN IF c < 0 THEN <<>> ELSE << <<x, y, c>> >>

\* _part (lines 96-101): Optional <<x, y, c>>.
part(frame, name) ==
    LET idx == PartIndex(name) * 3
        x == frame[idx + 1]
        y == frame[idx + 2]
        c == frame[idx + 3]
    IN IF c <= 0 THEN <<>> ELSE << <<x, y, c>> >>

\* Mutant of midpoint: the threshold is an exclusive bound.
midpoint_exclusive(a, b, mc) ==
    IF a = <<>> \/ b = <<>> THEN <<>>
    ELSE IF a[1][3] <= mc \/ b[1][3] <= mc THEN <<>>
    ELSE << << Mul(a[1][1] + b[1][1], 1, 2), Mul(a[1][2] + b[1][2], 1, 2) >> >>

\* _midpoint (lines 104-109): Optional <<x, y>>.
midpoint(a, b, mc) ==
    IF a = <<>> \/ b = <<>> THEN <<>>
    ELSE IF a[1][3] < mc \/ b[1][3] < mc THEN <<>>
    ELSE << << Mul(a[1][1] + b[1][1], 1, 2), Mul(a[1][2] + b[1][2], 1, 2) >> >>

hip_mid(frame, mc) == midpoint(part(frame, "l_hip"), part(frame, "r_hip"), mc)

shoulder_mid(frame, mc) ==
    midpoint(part(frame, "l_shoulder"), part(frame, "r_shoulder"), mc)

\* ---------------------------------------------------- Motion Statistics Engine
\* Mutant of median: the fallback is taken for fewer than two values.
median_short(values, fallback) ==
    IF Len(values) < 2 THEN fallback
    ELSE LET s == Sorted(values)
             n == Len(s)
         IN IF n % 2 = 1 THEN s[(n + 1) \div 2]
            ELSE Mul(s[n \div 2] + s[n \div 2 + 1], 1, 2)

\* _median (lines 38-42) with statistics.median: the middle element of the
\* sorted values, or the mean of the two middle ones.
median(values, fallback) ==
    IF values = <<>> THEN fallback
    ELSE LET s == Sorted(values)
             n == Len(s)
         IN IF n % 2 = 1 THEN s[(n + 1) \div 2]
            ELSE Mul(s[n \div 2] + s[n \div 2 + 1], 1, 2)

\* hip_x[i + 1] - hip_x[i] for i in range(len(hip_x) - 1).
Deltas(h) == [i \in 1..(Len(h) - 1) |-> h[i + 1] - h[i]]

\* 1e-6 in units, rounded down: on whole units abs(d) > 1e-6 iff Abs(d) > Eps.
Eps == U \div 1000000

\* Mutant of stride_stats: the epsilon filter of line 114 is missing.
stride_stats_no_eps(hip_x) ==
    LET deltas == Deltas(hip_x)
        abs_deltas == [i \in DOMAIN deltas |-> Abs(deltas[i])]
        walk_stride == Mul(median(abs_deltas, Px(30)), 21, 10)
        run_stride == Mul(walk_stride, 165, 100)
    IN <<walk_stride, run_stride>>

\* _stride_stats (lines 112-117): <<walk_stride, run_stride>>.
stride_stats(hip_x) ==
    LET deltas == Deltas(hip_x)
        abs_deltas == SelectSeq([i \in DOMAIN deltas |-> Abs(deltas[i])],
                                LAMBDA d : d > Eps)
        walk_stride == Mul(median(abs_deltas, Px(30)), 21, 10)
        run_stride == Mul(walk_stride, 165, 100)
    IN <<walk_stride, run_stride>>

\* Mutant of dash_distance: the percentile position is rounded up.
dash_distance_ceil(hip_x) ==
    LET d == Deltas(hip_x)
        deltas == Sorted([i \in DOMAIN d |-> Abs(d[i])])
    IN IF deltas = <<>> THEN Px(64)
       ELSE LET p90_index == (9 * (Len(deltas) - 1) + 9) \div 10
            IN Max2(Px(48), Mul(deltas[p90_index + 1], 45, 10))

\* _dash_distance (lines 120-125).
dash_distance(hip_x) ==
    LET d == Deltas(hip_x)
        deltas == Sorted([i \in DOMAIN d |-> Abs(d[i])])
    IN IF deltas = <<>> THEN Px(64)
       ELSE LET p90_index == (9 * (Len(deltas) - 1)) \div 10
            IN Max2(Px(48), Mul(deltas[p90_index + 1], 45, 10))

\* Python list indexing s[i] with a 0-based, possibly negative, index:
\* Optional value, <<>> standing for IndexError.
PyGet(s, i) ==
    IF 0 <= i /\ i < Len(s) THEN <<s[i + 1]>>
    ELSE IF i < 0 /\ -i <= Len(s) THEN <<s[Len(s) + i + 1]>>
    ELSE <<>>

\* Mutant of shoulder_y_of: no fallback to hip_y.
shoulder_y_nofallback(hip_y, sm) == [i \in DOMAIN sm |-> sm[i][2]]

\* shoulder_y of line 159.
shoulder_y_of(hip_y, sm) ==
    IF sm # <<>> THEN [i \in DOMAIN sm |-> sm[i][2]] ELSE hip_y

\* The index min(i, len(shoulder_y) - 1) of line 160 (0-based).
pair_index(i, shoulder_y) == Min2(i, Len(shoulder_y) - 1)

\* The list handed to _median on line 160: [raised, values].
upper_spans(hip_y, shoulder_y) ==
    LET got == [i \in DOMAIN hip_y |-> PyGet(shoulder_y, pair_index(i - 1, shoulder_y))]
    IN IF \E i \in DOMAIN hip_y : got[i] = <<>>
       THEN [raised |-> "IndexError", values |-> <<>>]
       ELSE [raised |-> "none",
             values |-> [i \in DOMAIN hip_y |-> Abs(hip_y[i] - got[i][1])]]

\* Mutant of not_enough: one sample is accepted.
not_enough_lt1(hm) == Len(hm) < 1

\* The test of line 145.
not_enough(hm) == Len(hm) < 2

\* Lines 148-160 of derive_motion_constants: the raw metrics.
derive_metrics(hm, sm) ==
    LET hip_x == [i \in DOMAIN hm |-> hm[i][1]]
        hip_y == [i \in DOMAIN hm |-> hm[i][2]]
        ss == stride_stats(hip_x)
        baseline_hip_y == median(hip_y, hip_y[1])
        shoulder_y == shoulder_y_of(hip_y, sm)
        spans == upper_spans(hip_y, shoulder_y)
    IN [ hip_x |-> hip_x,
         hip_y |-> hip_y,
         walk_stride |-> ss[1],
         run_stride |-> ss[2],
         dash_distance |-> dash_distance(hip_x),
         baseline_hip_y |-> baseline_hip_y,
         jump_height_px |-> Max2(Px(12), baseline_hip_y - SeqMin(hip_y)),
         crouch_drop_px |-> Max2(Px(10), SeqMax(hip_y) - baseline_hip_y),
         shoulder_y |-> shoulder_y,
         spans |-> spans.values,
         raised |-> spans.raised,
         upper_motion |-> median(spans.values, Px(80)) ]

\* ------------------------------------------------------ Constant Synthesizer
\* Mutant of clamp: the lower bound is not applied.
clamp_no_floor(value, lo, hi) == Min2(hi, value)

\* _clamp (lines 45-46).
clamp(value, lo, hi) == Max2(lo, Min2(hi, value))

\* px_to_world = 0.42 (line 164) applied to v.
px_to_world(v) == Mul(v, 42, 100)

\* The dict of lines 166-177.
synthesize(m) ==
    [ WALK_SWING_FORWARD_PX |-> clamp(px_to_world(m.walk_stride), Px(20), Px(72)),
      WALK_SWING_LIFT_PX |->
          clamp(Mul(px_to_world(m.jump_height_px), 42, 100), Px(14), Px(42)),
      RUN_SWING_FORWARD_PX |-> clamp(px_to_world(m.run_stride), Px(34), Px(112)),
      RUN_SWING_LIFT_PX |->
          clamp(Mul(px_to_world(m.jump_height_px), 58, 100), Px(20), Px(64)),
      JUMP_HEIGHT_PX |-> clamp(px_to_world(m.jump_height_px), Px(24), Px(120)),
      CROUCH_ROOT_DROP_PX |-> clamp(px_to_world(m.crouch_drop_px), Px(16), Px(56)),
      DASH_ROOT_ADVANCE_PX |-> clamp(px_to_world(m.dash_distance), Px(42), Px(140)),
      DASH_FOOT_DRIVE_PX |->
          clamp(Mul(px_to_world(m.dash_distance), 1, 2), Px(24), Px(74)),
      ROOT_NUDGE_STEP_PX |->
          clamp(median(<<Abs(Mul(px_to_world(m.walk_stride), 18, 100))>>, Px(14)),
                Px(8), Px(26)),
      REFERENCE_BODY_SPAN_PX |-> clamp(m.upper_motion, Px(40), Px(240)) ]

\* round(v, 2) of line 178.  One hundredth is Cent units.  A value exactly
\* half way between two hundredths is a tie of the exact arithmetic; the
\* float the program holds there lies on one side or the other, so the tie
\* goes up or down as `up` says and the action takes either.
Cent == U \div 100

IsTie(v) == 2 * (v % Cent) = Cent

round2(v, up) ==
    LET q == v \div Cent
        r == v % Cent
    IN IF 2 * r < Cent THEN q * Cent
       ELSE IF 2 * r > Cent THEN (q + 1) * Cent
       ELSE IF up THEN (q + 1) * Cent ELSE q * Cent

rounded(c, ups) == [k \in DOMAIN c |-> round2(c[k], k \in ups)]

\* ------------------------------------------------------------------ inputs
\* 1-based position of component k (1 = x, 2 = y, 3 = c) of a part.
Slot(name, k) == PartIndex(name) * 3 + k

\* A keypoint vector whose hips straddle <<hx, hy>> and whose shoulders
\* straddle <<hx, sy>>, with confidences hc and sc (left, right), every other
\* joint zero, and `extra` trailing values beyond the 18 parts.
MkArr(hx, hy, hc, sy, sc, extra) ==
    [i \in 1..(FrameLen + extra) |->
        CASE i = Slot("l_hip", 1) -> hx + Px(10)
          [] i = Slot("l_hip", 2) -> hy + Px(2)
          [] i = Slot("l_hip", 3) -> hc[1]
          [] i = Slot("r_hip", 1) -> hx - Px(10)
          [] i = Slot("r_hip", 2) -> hy - Px(2)
          [] i = Slot("r_hip", 3) -> hc[2]
          [] i = Slot("l_shoulder", 1) -> hx + Px(20)
          [] i = Slot("l_shoulder", 2) -> sy
          [] i = Slot("l_shoulder", 3) -> sc[1]
          [] i = Slot("r_shoulder", 1) -> hx - Px(20)
          [] i = Slot("r_shoulder", 2) -> sy
          [] i = Slot("r_shoulder", 3) -> sc[2]
          [] OTHER -> 0]

FrameA == MkArr(Px(100), Px(400), <<Tenths(9), Tenths(9)>>, Px(300), <<Tenths(9), Tenths(9)>>, 0)

FrameB == MkArr(Px(130), Px(400), <<Tenths(9), Tenths(9)>>, Px(300), <<Tenths(9), Tenths(9)>>, 0)

FrameC == MkArr(Px(95), Px(430), <<Tenths(9), Tenths(9)>>, Px(330), <<Tenths(9), Tenths(9)>>, 3)

FrameD == MkArr(Px(600), Px(700), <<Tenths(2), Tenths(2)>>, Px(100), <<Tenths(1), Tenths(1)>>, 0)

FrameE == MkArr(Px(130), Px(400), <<0, 0>>, Px(300), <<Tenths(-2), Tenths(-2)>>, 0)

FrameF == MkArr(Px(95), Px(430), <<Tenths(-2), Tenths(9)>>, Px(330), <<Tenths(9), 0>>, 0)

FrameG == MkArr(Px(100), Px(430), <<Tenths(9), Tenths(9)>>, Px(300), <<Tenths(1), Tenths(1)>>, 0)

FrameH == MkArr(Px(130), Px(400), <<Tenths(9), Tenths(9)>>, Px(300), <<Tenths(2), Tenths(2)>>, 0)

DeriveFrames == {FrameA, FrameB, FrameC, FrameD, FrameE, FrameF, FrameG, FrameH}

MinConfs == {Tenths(-2), 0, Tenths(2)}

JArr(arr) == JList([i \in DOMAIN arr |-> JNum(arr[i])])

Person(e) == JDict([pose_keypoints_2d |-> e])

People(e) == JDict([people |-> JList(<<Person(e)>>)])

ItemA == People(JArr(FrameA))

ItemB == Person(JArr(FrameB))

ItemC == Person(JArr(FrameC))

ItemD == People(JArr(FrameD))

ItemNumStr == Person(JList([JArr(FrameB).e EXCEPT ![1] = JStr("1.5")]))

ItemScalar == JNum(Px(7))

ItemNoPeople == JDict([people |-> JList(<<>>)])

ItemPeopleScalar == JDict([people |-> JList(<<JNum(Px(7))>>)])

ItemEmpty == JDict(<<>>)

ItemNonList == Person(JStr("x"))

ItemShort == Person(JList(SubSeq(JArr(FrameA).e, 1, FrameLen - 1)))

ItemNull == Person(JList([JArr(FrameA).e EXCEPT ![FrameLen] = JNull]))

ItemStr == People(JList([JArr(FrameB).e EXCEPT ![2] = JStr("x")]))

Items ==
    { ItemA, ItemB, ItemC, ItemD, ItemNumStr, ItemScalar, ItemNoPeople,
      ItemPeopleScalar, ItemEmpty, ItemNonList, ItemShort, ItemNull, ItemStr }

Payloads ==
    {JDict([frames |-> JList(s)]) : s \in SeqsUpTo(Items, MaxItems)}
      \cup {JList(s) : s \in SeqsUpTo(Items, MaxItems)}
      \cup Items

\* ----------------------------------------------------------------- actions
Init ==
    /\ pc = "start"
    /\ payload \in Payloads
    /\ min_conf \in MinConfs
    /\ frames = <<>>
    /\ fi = 0
    /\ hip_midpoints = <<>>
    /\ shoulder_midpoints = <<>>
    /\ metrics = <<>>
    /\ constants = <<>>
    /\ result = <<>>
    /\ exc = "none"

\* derive_motion_constants called directly on a frame series.
InitDerive ==
    /\ pc = "entry"
    /\ payload = JNull
    /\ min_conf \in MinConfs
    /\ frames \in SeqsUpTo(DeriveFrames, MaxFrames)
    /\ fi = 0
    /\ hip_midpoints = <<>>
    /\ shoulder_midpoints = <<>>
    /\ metrics = <<>>
    /\ constants = <<>>
    /\ result = <<>>
    /\ exc = "none"

\* main, line 212: frames = _load_frames(payload); an exception ends the run.
Load ==
    /\ pc = "start"
    /\ LET r == load_frames(payload) IN
       IF r.raised # "none"
       THEN /\ exc' = r.raised
            /\ pc' = "done"
            /\ frames' = frames
       ELSE /\ frames' = r.frames
            /\ pc' = "loaded"
            /\ exc' = exc
    /\ UNCHANGED <<payload, min_conf, fi, hip_midpoints, shoulder_midpoints,
                   metrics, constants, result>>

\* main, lines 213-214.
MainNoFrames ==
    /\ pc = "loaded"
    /\ frames = <<>>
    /\ exc' = "SystemExit"
    /\ pc' = "done"
    /\ UNCHANGED <<payload, frames, min_conf, fi, hip_midpoints,
                   shoulder_midpoints, metrics, constants, result>>

\* main, line 215.
MainCall ==
    /\ pc = "loaded"
    /\ frames # <<>>
    /\ pc' = "entry"
    /\ UNCHANGED <<payload, frames, min_conf, fi, hip_midpoints,
                   shoulder_midpoints, metrics, constants, result, exc>>

\* derive_motion_constants, lines 129-130.
Enter ==
    /\ pc = "entry"
    /\ hip_midpoints' = <<>>
    /\ shoulder_midpoints' = <<>>
    /\ fi' = 1
    /\ pc' = "loop"
    /\ UNCHANGED <<payload, frames, min_conf, metrics, constants, result, exc>>

\* One iteration of the loop of lines 132-143.
FrameStep ==
    /\ pc = "loop"
    /\ fi <= Len(frames)
    /\ LET hm == hip_mid(frames[fi], min_conf)
           sm == shoulder_mid(frames[fi], min_conf)
       IN /\ hip_midpoints' = IF hm # <<>> THEN Append(hip_midpoints, hm[1])
                                           ELSE hip_midpoints
          /\ shoulder_midpoints' = IF sm # <<>> THEN Append(shoulder_midpoints, sm[1])
                                                ELSE shoulder_midpoints
    /\ fi' = fi + 1
    /\ UNCHANGED <<pc, payload, frames, min_conf, metrics, constants, result, exc>>

\* Lines 145-146.
RaiseNotEnough ==
    /\ pc = "loop"
    /\ fi > Len(frames)
    /\ not_enough(hip_midpoints)
    /\ exc' = "ValueError"
    /\ pc' = "done"
    /\ UNCHANGED <<payload, frames, min_conf, fi, hip_midpoints,
                   shoulder_midpoints, metrics, constants, result>>

\* Lines 148-178.
Synthesize ==
    /\ pc = "loop"
    /\ fi > Len(frames)
    /\ ~not_enough(hip_midpoints)
    /\ LET m == derive_metrics(hip_midpoints, shoulder_midpoints) IN
       /\ metrics' = m
       /\ IF m.raised # "none"
          THEN /\ exc' = m.raised
               /\ constants' = constants
               /\ result' = result
          ELSE /\ exc' = exc
               /\ constants' = synthesize(m)
               /\ \E ups \in SUBSET {k \in DOMAIN synthesize(m) : IsTie(synthesize(m)[k])} :
                      result' = rounded(synthesize(m), ups)
    /\ pc' = "done"
    /\ UNCHANGED <<payload, frames, min_conf, fi, hip_midpoints, shoulder_midpoints>>

NextDerive == Enter \/ FrameStep \/ RaiseNotEnough \/ Synthesize

Next == Load \/ MainNoFrames \/ MainCall \/ NextDerive

Spec == Init /\ [][Next]_vars

SpecDerive == InitDerive /\ [][NextDerive]_vars

\* ------------------------------------------------------------------ claims
\* Confidence of a joint of a frame.
Conf(frame, name) == frame[Slot(name, 3)]

\* The decimal n / d as a fixed-point value.
Dec(n, d) == (U \div d) * n

\* Number of frames of the series that yield a hip midpoint.
HipYield == Cardinality({i \in DOMAIN frames : hip_mid(frames[i], min_conf) # <<>>})

Returned == pc = "done" /\ exc = "none"

ClampRange ==
    [ WALK_SWING_FORWARD_PX |-> <<20, 72>>,
      WALK_SWING_LIFT_PX |-> <<14, 42>>,
      RUN_SWING_FORWARD_PX |-> <<34, 112>>,
      RUN_SWING_LIFT_PX |-> <<20, 64>>,
      JUMP_HEIGHT_PX |-> <<24, 120>>,
      CROUCH_ROOT_DROP_PX |-> <<16, 56>>,
      DASH_ROOT_ADVANCE_PX |-> <<42, 140>>,
      DASH_FOOT_DRIVE_PX |-> <<24, 74>>,
      ROOT_NUDGE_STEP_PX |-> <<8, 26>>,
      REFERENCE_BODY_SPAN_PX |-> <<40, 240>> ]

TenKeys == DOMAIN ClampRange

\* C1: whenever derive_motion_constants returns, the result has exactly the
\* ten keys and every value lies inside its clamp range, bounds included.
C1_ConstantsWithinClampRanges ==
    Returned =>
        /\ DOMAIN result = TenKeys
        /\ Cardinality(DOMAIN result) = 10
        /\ \A k \in TenKeys :
              /\ Px(ClampRange[k][1]) <= result[k]
              /\ result[k] <= Px(ClampRange[k][2])

\* A return where a lower clamp (JUMP_HEIGHT_PX = 24) and an upper clamp
\* (CROUCH_ROOT_DROP_PX = 56) are both met.
C1_Witness ==
    /\ Returned
    /\ result["JUMP_HEIGHT_PX"] = Px(24)
    /\ result["CROUCH_ROOT_DROP_PX"] = Px(56)

\* C2: the outcome is all-or-nothing: with fewer than 2 frames yielding a
\* hip midpoint the run ends in ValueError with no constants at all, with at
\* least 2 it returns all ten; the result never holds a part of the keys.
C2_AllOrNothing ==
    /\ DOMAIN result \in {{}, TenKeys}
    /\ pc = "done" =>
          IF HipYield < 2
          THEN exc = "ValueError" /\ DOMAIN result = {} /\ DOMAIN constants = {}
          ELSE exc = "none" /\ DOMAIN result = TenKeys

\* A non-empty series with a single usable hip midpoint ends in the error.
C2_Witness ==
    /\ pc = "done"
    /\ exc = "ValueError"
    /\ HipYield = 1
    /\ Len(frames) >= 2

\* _load_frames ended the run with an exception of float().
LoadRaised == pc = "done" /\ fi = 0 /\ exc \in {"TypeError", "ValueError"}

\* C3: frame ingestion never raises, whatever the payload: an item whose
\* array holds a non-numeric element is dropped like any other bad item.
C3_IngestionNeverRaises == ~LoadRaised

\* C4: a frame with a hip (resp. shoulder) joint of confidence <= 0 adds no
\* sample to the hip (resp. shoulder) series, whatever min_conf is.
C4_AbsentJointNeverContributes ==
    [][(pc = "loop" /\ fi <= Len(frames)) =>
          /\ (Conf(frames[fi], "l_hip") <= 0 \/ Conf(frames[fi], "r_hip") <= 0)
                => hip_midpoints' = hip_midpoints
          /\ (Conf(frames[fi], "l_shoulder") <= 0 \/ Conf(frames[fi], "r_shoulder") <= 0)
                => shoulder_midpoints' = shoulder_midpoints]_vars

\* Under a negative threshold, a first frame whose hips have confidence 0
\* has been processed and left the hip series empty.
C4_Witness ==
    /\ pc = "loop"
    /\ fi = 2
    /\ min_conf < 0
    /\ Conf(frames[1], "l_hip") = 0
    /\ hip_midpoints = <<>>

\* C5 as stated: for every min_conf, a frame whose pair of joints both have
\* confidence exactly min_conf adds a sample.
C5_InclusiveForEveryMinConf ==
    [][(pc = "loop" /\ fi <= Len(frames)) =>
          /\ (Conf(frames[fi], "l_hip") = min_conf /\ Conf(frames[fi], "r_hip") = min_conf)
                => Len(hip_midpoints') = Len(hip_midpoints) + 1
          /\ (Conf(frames[fi], "l_shoulder") = min_conf
                /\ Conf(frames[fi], "r_shoulder") = min_conf)
                => Len(shoulder_midpoints') = Len(shoulder_midpoints) + 1]_vars

\* C5 amended: for every min_conf > 0, a frame whose pair of joints both
\* have confidence exactly min_conf adds a sample.
C5_InclusiveForPositiveMinConf ==
    [][(pc = "loop" /\ fi <= Len(frames) /\ min_conf > 0) =>
          /\ (Conf(frames[fi], "l_hip") = min_conf /\ Conf(frames[fi], "r_hip") = min_conf)
                => Len(hip_midpoints') = Len(hip_midpoints) + 1
          /\ (Conf(frames[fi], "l_shoulder") = min_conf
                /\ Conf(frames[fi], "r_shoulder") = min_conf)
                => Len(shoulder_midpoints') = Len(shoulder_midpoints) + 1]_vars

\* A first frame whose hips sit exactly on a positive threshold has been
\* processed and has given a hip sample.
C5_Witness ==
    /\ pc = "loop"
    /\ fi = 2
    /\ min_conf > 0
    /\ Conf(frames[1], "l_hip") = min_conf
    /\ Conf(frames[1], "r_hip") = min_conf
    /\ Len(hip_midpoints) = 1

\* The hip-x series of the return is constant.
ConstantX == Returned /\ \A i \in DOMAIN metrics.hip_x : metrics.hip_x[i] = metrics.hip_x[1]

\* C6 as stated: a constant hip-x series gives WALK_SWING_FORWARD_PX = 20.0
\* (30.0 * 0.42 clamped) and DASH_ROOT_ADVANCE_PX = 42.0 from the 64.0 default.
C6_ConstantXAsStated ==
    ConstantX =>
        /\ constants["WALK_SWING_FORWARD_PX"] = Px(20)
        /\ metrics.dash_distance = Px(64)
        /\ constants["DASH_ROOT_ADVANCE_PX"] = Px(42)

\* C6 amended: a constant hip-x series gives the walk stride 30.0 * 2.1 = 63.0
\* and WALK_SWING_FORWARD_PX = 63.0 * 0.42 = 26.46 (unclamped), the dash
\* distance 48.0 (the floor, the delta list not being empty) and
\* DASH_ROOT_ADVANCE_PX = 42.0 (20.16 clamped up).
C6_ConstantXFallbacks ==
    ConstantX =>
        /\ metrics.walk_stride = Px(63)
        /\ constants["WALK_SWING_FORWARD_PX"] = Dec(2646, 100)
        /\ result["WALK_SWING_FORWARD_PX"] = Dec(2646, 100)
        /\ metrics.dash_distance = Px(48)
        /\ constants["DASH_ROOT_ADVANCE_PX"] = Px(42)
        /\ result["DASH_ROOT_ADVANCE_PX"] = Px(42)

\* A return on three hip samples of equal x and different y.
C6_Witness ==
    /\ ConstantX
    /\ Len(metrics.hip_x) = 3
    /\ metrics.hip_y[1] # metrics.hip_y[2]

\* The series of the end-to-end example.
ExampleSeries ==
    /\ Returned
    /\ metrics.hip_x = <<Px(100), Px(130), Px(95)>>
    /\ metrics.hip_y = <<Px(400), Px(400), Px(430)>>

\* C7: on hip midpoints x = [100, 130, 95], y = [400, 400, 430] the raw
\* metrics are 68.25, 68.25 * 1.65, 12, 30 and 135 and the constants before
\* rounding are 28.665, 47.29725, 24.0, 16.0 and 56.7.
C7_EndToEndExample ==
    ExampleSeries =>
        /\ metrics.walk_stride = Dec(6825, 100)
        /\ metrics.run_stride = Dec(1126125, 10000)
        /\ metrics.jump_height_px = Px(12)
        /\ metrics.crouch_drop_px = Px(30)
        /\ metrics.dash_distance = Px(135)
        /\ constants["WALK_SWING_FORWARD_PX"] = Dec(28665, 1000)
        /\ constants["RUN_SWING_FORWARD_PX"] = Dec(4729725, 100000)
        /\ constants["JUMP_HEIGHT_PX"] = Px(24)
        /\ constants["CROUCH_ROOT_DROP_PX"] = Px(16)
        /\ constants["DASH_ROOT_ADVANCE_PX"] = Dec(567, 10)

\* The example series has been processed to a return.
C7_Witness == ExampleSeries /\ Len(frames) = 3

\* The series that starts where h starts and whose every delta is doubled.
Doubled(h) == [i \in DOMAIN h |-> 2 * h[i] - h[1]]

\* Some delta of h exceeds the epsilon.
HasMotion(h) == \E i \in DOMAIN Deltas(h) : Abs(Deltas(h)[i]) > Eps

\* No delta of h crosses the epsilon when doubled.
NoneCrossesEps(h) ==
    \A i \in DOMAIN Deltas(h) : Abs(Deltas(h)[i]) > Eps \/ 2 * Abs(Deltas(h)[i]) <= Eps

\* C8 as stated: for every hip-x series of at least 2 samples the run stride
\* is 1.65 times the walk stride and doubling every delta doubles both.
C8_DoublingForEverySeries ==
    Returned =>
        /\ metrics.run_stride = Mul(metrics.walk_stride, 165, 100)
        /\ stride_stats(Doubled(metrics.hip_x))
              = <<2 * metrics.walk_stride, 2 * metrics.run_stride>>

\* C8 amended: the run stride is always 1.65 times the walk stride; doubling
\* every delta doubles both when some delta exceeds the epsilon 1e-6 and no
\* delta crosses the epsilon by being doubled.
C8_DoublingWithMotion ==
    Returned =>
        /\ metrics.run_stride = Mul(metrics.walk_stride, 165, 100)
        /\ (HasMotion(metrics.hip_x) /\ NoneCrossesEps(metrics.hip_x)) =>
              stride_stats(Doubled(metrics.hip_x))
                  = <<2 * metrics.walk_stride, 2 * metrics.run_stride>>

\* A return on a series with a still step and a moving step.
C8_Witness ==
    /\ Returned
    /\ Len(metrics.hip_x) = 3
    /\ metrics.hip_x[1] = metrics.hip_x[2]
    /\ metrics.hip_x[2] # metrics.hip_x[3]

\* C9: with at least 2 hip midpoints the shoulder data cannot make the run
\* fail: with no shoulder midpoint the hip-y series stands in and
\* REFERENCE_BODY_SPAN_PX is inside [40, 240]; with a shorter shoulder series
\* hip sample i is paired with shoulder sample min(i, last).
C9_ShoulderFallback ==
    (pc = "done" /\ Len(hip_midpoints) >= 2) =>
        /\ exc = "none"
        /\ shoulder_midpoints = <<>> =>
              /\ metrics.shoulder_y = metrics.hip_y
              /\ Px(40) <= result["REFERENCE_BODY_SPAN_PX"]
              /\ result["REFERENCE_BODY_SPAN_PX"] <= Px(240)
        /\ (shoulder_midpoints # <<>> /\ Len(shoulder_midpoints) < Len(hip_midpoints)) =>
              \A i \in DOMAIN hip_midpoints :
                  metrics.spans[i] =
                      Abs(hip_midpoints[i][2]
                          - shoulder_midpoints[Min2(i, Len(shoulder_midpoints))][2])

\* A return on a series with moving hips and no shoulder midpoint at all.
C9_Witness ==
    /\ Returned
    /\ shoulder_midpoints = <<>>
    /\ Len(hip_midpoints) = 3
    /\ hip_midpoints[1] # hip_midpoints[2]

\* _load_frames has returned its list.
LoadReturned == pc # "start" /\ ~LoadRaised

\* frames holds converted arrays of items of the payload, in input order.
InInputOrder ==
    \E f \in [1..Len(frames) -> 1..Len(ItemsOf(payload))] :
        /\ \A i, j \in 1..Len(frames) : i < j => f[i] < f[j]
        /\ \A i \in 1..Len(frames) :
              extract_keypoints_array(ItemsOf(payload)[f[i]]).arr = <<frames[i]>>

\* C10 as stated: the list _load_frames returns is no longer than the item
\* list, keeps the input order, and every element has exactly 54 floats.
C10_FramesExactLength ==
    LoadReturned =>
        /\ Len(frames) <= Len(ItemsOf(payload))
        /\ InInputOrder
        /\ \A i \in 1..Len(frames) : Len(frames[i]) = 54

\* C10 amended: the list _load_frames returns is no longer than the item
\* list, keeps the input order, and every element has at least 54 floats.
C10_FramesAtLeastLength ==
    LoadReturned =>
        /\ Len(frames) <= Len(ItemsOf(payload))
        /\ InInputOrder
        /\ \A i \in 1..Len(frames) : Len(frames[i]) >= 54

\* Of two items one was dropped and the retained one is longer than 54.
C10_Witness ==
    /\ pc = "loaded"
    /\ Len(ItemsOf(payload)) = 2
    /\ Len(frames) = 1
    /\ Len(frames[1]) > 54

====
